---- MODULE Spec2Model ----
(***************************************************************************)
(* FarmWise: accounts with an embedded gamification ledger and wallet,     *)
(* one-time codes, and challenges with per-account participant entries.    *)
(* The stored documents are the state; every route handler is an action.   *)
(***************************************************************************)
EXTENDS Integers, Sequences, FiniteSets, TLC

VARIABLES users, challenges, now, resp, reqs

vars == <<users, challenges, now, resp, reqs>>

(***************************************************************************)
(* Bounds of the model                                                     *)
(***************************************************************************)
\* total number of direct addPoints calls explored by SpecLedger
MaxCalls == 3
\* largest number of wallet transactions an account may hold
MaxTx == 3
\* last instant of the clock (minutes)
MaxTime == 11

NewUserIds == {"u1"}
Amounts == {50, 100, 1000}
Descriptions == {"Points earned", "Email verification bonus"}

(***************************************************************************)
(* Values of the schemas                                                   *)
(***************************************************************************)
NoCode == ""
NoDate == -1
NoPhone == ""
NoState == ""
NoOTP == [code |-> NoCode, expiresAt |-> NoDate]

LevelSpan == 1000
OtpLifetime == 10
VerificationBonus == 50

Tx(type, amount, description) ==
    [type |-> type, amount |-> amount, description |-> description]

\* a document created with the schema defaults
NewUser(role, phone) ==
    [role |-> role, phone |-> phone,
     isEmailVerified |-> FALSE, isPhoneVerified |-> FALSE,
     otp |-> NoOTP,
     state |-> NoState, farmExp |-> "beginner",
     level |-> 1, experience |-> 0, points |-> 0,
     balance |-> 0, transactions |-> << >>,
     isActive |-> TRUE]

SeedUser(role, phone, state, farmExp, level, pts, bal, txs) ==
    [NewUser(role, phone) EXCEPT
        !.isEmailVerified = TRUE, !.isPhoneVerified = TRUE,
        !.state = state, !.farmExp = farmExp,
        !.level = level, !.experience = pts, !.points = pts,
        !.balance = bal, !.transactions = txs]

seedUsers ==
    [rajesh |-> SeedUser("farmer", "9876543210", "Punjab", "intermediate",
                  5, 2500, 2500,
                  << Tx("earned", 100, "Completed Drip Irrigation Challenge"),
                     Tx("earned", 50, "Email verification bonus") >>),
     priya  |-> SeedUser("student", "9876543211", "Karnataka", "beginner",
                  4, 2100, 2100,
                  << Tx("earned", 75, "Completed Compost Challenge"),
                     Tx("earned", 50, "Email verification bonus") >>),
     amit   |-> SeedUser("farmer", "9876543212", "Gujarat", "expert",
                  6, 3200, 3200,
                  << Tx("earned", 200, "Completed Solar Panel Challenge"),
                     Tx("earned", 50, "Email verification bonus") >>),
     admin  |-> SeedUser("admin", "9876543213", NoState, "expert",
                  10, 5000, 5000, << >>)]

SeedIds == DOMAIN seedUsers

(***************************************************************************)
(* Gamification ledger                                                     *)
(***************************************************************************)
Signed(t) == IF t.type = "spent" THEN 0 - t.amount ELSE t.amount

RECURSIVE SumSigned(_)
SumSigned(txs) ==
    IF txs = << >> THEN 0
    ELSE Signed(Head(txs)) + SumSigned(Tail(txs))

\* Math.floor(x / 1000): floor division, also for a negative x
Floor(x, d) == x \div d

\* addPoints forgetting the wallet balance
addPointsSkipsBalance(user, points, description) ==
    LET exp == user.experience + points
        newLevel == Floor(exp, LevelSpan) + 1
    IN [user EXCEPT
          !.points = user.points + points,
          !.experience = exp,
          !.level = IF newLevel > user.level THEN newLevel ELSE user.level,
          !.transactions = Append(user.transactions,
                                  Tx("earned", points, description))]

\* addPoints assigning the recomputed level without comparing it
addPointsSetsLevel(user, points, description) ==
    LET exp == user.experience + points
    IN [user EXCEPT
          !.points = user.points + points,
          !.experience = exp,
          !.level = Floor(exp, LevelSpan) + 1,
          !.balance = user.balance + points,
          !.transactions = Append(user.transactions,
                                  Tx("earned", points, description))]

\* addPoints forgetting the experience
addPointsSkipsExperience(user, points, description) ==
    [user EXCEPT
       !.points = user.points + points,
       !.balance = user.balance + points,
       !.transactions = Append(user.transactions,
                               Tx("earned", points, description))]

addPoints(user, points, description) ==
    LET pts == user.points + points
        exp == user.experience + points
        newLevel == Floor(exp, LevelSpan) + 1
    IN [user EXCEPT
          !.points = pts,
          !.experience = exp,
          !.level = IF newLevel > user.level THEN newLevel ELSE user.level,
          !.balance = user.balance + points,
          !.transactions = Append(user.transactions,
                                  Tx("earned", points, description))]

(***************************************************************************)
(* One-time codes                                                          *)
(***************************************************************************)
Codes == {"111111", "222222"}

\* generateOTP keeping a code that is already stored
generateOTPKeepsPrior(user, otp, t) ==
    IF user.otp.code # NoCode
    THEN user
    ELSE [user EXCEPT !.otp = [code |-> otp, expiresAt |-> t + OtpLifetime]]

generateOTP(user, otp, t) ==
    [user EXCEPT !.otp = [code |-> otp, expiresAt |-> t + OtpLifetime]]

verifyOTP(user, otp, t) ==
    IF user.otp = NoOTP \/ user.otp.code = NoCode \/ user.otp.expiresAt = NoDate
    THEN FALSE
    ELSE IF user.otp.expiresAt < t
         THEN FALSE
         ELSE user.otp.code = otp

\* clearOTP leaving the stored code in place
clearOTPKeepsCode(user) == user

clearOTP(user) == [user EXCEPT !.otp = NoOTP]

(***************************************************************************)
(* Challenges                                                              *)
(***************************************************************************)
NoExperience == ""
NoRate == [num |-> -1, den |-> 1]

\* an entry created in progress instead of pending
NewParticipantInProgress(userId) ==
    [userId |-> userId, status |-> "in_progress", completedAt |-> NoDate,
     submissions |-> << >>, pointsEarned |-> 0]

NewParticipant(userId) ==
    [userId |-> userId, status |-> "pending", completedAt |-> NoDate,
     submissions |-> << >>, pointsEarned |-> 0]

NewChallenge(title, points, roles, experience, states) ==
    [title |-> title, points |-> points, isActive |-> TRUE,
     roles |-> roles, experience |-> experience, states |-> states,
     participants |-> << >>,
     totalParticipants |-> 0, completedParticipants |-> 0,
     successRate |-> NoRate, version |-> 0]

seedChallenges ==
    [drip    |-> NewChallenge("Drip Irrigation Setup", 100,
                   {"farmer", "student"}, "beginner",
                   {"Punjab", "Haryana", "Rajasthan"}),
     compost |-> NewChallenge("Compost Making Challenge", 75,
                   {"farmer", "student"}, "beginner", {}),
     solar   |-> NewChallenge("Solar Panel Installation", 200,
                   {"farmer"}, "intermediate",
                   {"Gujarat", "Rajasthan", "Tamil Nadu"})]

\* participants.find(p => p.userId.toString() === userId): the index of the
\* first entry of the account, 0 when there is none
FindParticipant(parts, userId) ==
    IF \E i \in 1..Len(parts) : parts[i].userId = userId
    THEN CHOOSE i \in 1..Len(parts) :
            /\ parts[i].userId = userId
            /\ \A j \in 1..(i - 1) : parts[j].userId # userId
    ELSE 0

\* the virtual completionRate, (completed / total) * 100, kept as a fraction
completionRate(ch) ==
    IF ch.totalParticipants = 0
    THEN [num |-> 0, den |-> 1]
    ELSE [num |-> ch.completedParticipants * 100, den |-> ch.totalParticipants]

addParticipant(ch, userId) ==
    IF FindParticipant(ch.participants, userId) = 0
    THEN [ch EXCEPT
            !.participants = Append(@, NewParticipant(userId)),
            !.totalParticipants = @ + 1]
    ELSE ch

\* updateParticipantStatus forgetting to count the completion
updateParticipantStatusSkipsCount(ch, userId, status, submissions, t) ==
    LET i == FindParticipant(ch.participants, userId)
    IN IF i = 0 THEN ch
       ELSE LET p0 == ch.participants[i]
                p1 == [p0 EXCEPT
                         !.status = status,
                         !.submissions = IF Len(submissions) > 0
                                         THEN submissions ELSE @]
                p2 == IF status = "completed"
                      THEN [p1 EXCEPT !.completedAt = t,
                                      !.pointsEarned = ch.points]
                      ELSE p1
                c1 == [ch EXCEPT !.participants[i] = p2]
            IN [c1 EXCEPT !.successRate = completionRate(c1)]

\* updateParticipantStatus forgetting the points of the completed entry
updateParticipantStatusSkipsPointsEarned(ch, userId, status, submissions, t) ==
    LET i == FindParticipant(ch.participants, userId)
    IN IF i = 0 THEN ch
       ELSE LET p0 == ch.participants[i]
                p1 == [p0 EXCEPT
                         !.status = status,
                         !.submissions = IF Len(submissions) > 0
                                         THEN submissions ELSE @]
                p2 == IF status = "completed"
                      THEN [p1 EXCEPT !.completedAt = t]
                      ELSE p1
                c1 == [ch EXCEPT
                         !.participants[i] = p2,
                         !.completedParticipants =
                             IF status = "completed" THEN @ + 1 ELSE @]
            IN [c1 EXCEPT !.successRate = completionRate(c1)]

updateParticipantStatus(ch, userId, status, submissions, t) ==
    LET i == FindParticipant(ch.participants, userId)
    IN IF i = 0 THEN ch
       ELSE LET p0 == ch.participants[i]
                p1 == [p0 EXCEPT
                         !.status = status,
                         !.submissions = IF Len(submissions) > 0
                                         THEN submissions ELSE @]
                p2 == IF status = "completed"
                      THEN [p1 EXCEPT !.completedAt = t,
                                      !.pointsEarned = ch.points]
                      ELSE p1
                c1 == [ch EXCEPT
                         !.participants[i] = p2,
                         !.completedParticipants =
                             IF status = "completed" THEN @ + 1 ELSE @]
            IN [c1 EXCEPT !.successRate = completionRate(c1)]

\* isEligible without its test of the experience level
isEligibleSkipsExperience(ch, user) ==
    IF ch.roles # {} /\ user.role \notin ch.roles
    THEN FALSE
    ELSE IF ch.states # {} /\ user.state \notin ch.states
         THEN FALSE
         ELSE TRUE

isEligible(ch, user) ==
    IF ch.roles # {} /\ user.role \notin ch.roles
    THEN FALSE
    ELSE IF ch.experience # NoExperience /\ user.farmExp # ch.experience
         THEN FALSE
         ELSE IF ch.states # {} /\ user.state \notin ch.states
              THEN FALSE
              ELSE TRUE

(***************************************************************************)
(* Persistence: save() writes the paths of the loaded copy that were        *)
(* modified since it was loaded. A changed scalar is $set to the copy's     *)
(* value, entries pushed onto an array are $push-ed onto the stored array.  *)
(* A $set below an array position is sent with the loaded version in the    *)
(* filter and fails when the stored version differs; a $push or the $set of *)
(* an array increments the stored version.                                  *)
(***************************************************************************)
Pushed(baseSeq, docSeq) == SubSeq(docSeq, Len(baseSeq) + 1, Len(docSeq))

MergeField(storedVal, baseVal, docVal) ==
    IF docVal # baseVal THEN docVal ELSE storedVal

MergeParticipant(sp, bp, dp) ==
    [userId       |-> sp.userId,
     status       |-> MergeField(sp.status, bp.status, dp.status),
     completedAt  |-> MergeField(sp.completedAt, bp.completedAt, dp.completedAt),
     submissions  |-> MergeField(sp.submissions, bp.submissions, dp.submissions),
     pointsEarned |-> MergeField(sp.pointsEarned, bp.pointsEarned, dp.pointsEarned)]

SaveChallengeOk(stored, base, doc) ==
    LET positional == \E i \in 1..Len(base.participants) :
                         doc.participants[i] # base.participants[i]
    IN positional => stored.version = base.version

\* save() adding the change of completedParticipants to the stored counter
\* instead of writing the copy's value
SaveChallengeIncrementsCount(stored, base, doc) ==
    LET n == Len(base.participants)
        pushed == Pushed(base.participants, doc.participants)
        arraySet == \E i \in 1..n : doc.participants[i].submissions
                                      # base.participants[i].submissions
        kept == [i \in 1..Len(stored.participants) |->
                   IF i <= n
                   THEN MergeParticipant(stored.participants[i],
                                         base.participants[i],
                                         doc.participants[i])
                   ELSE stored.participants[i]]
    IN [stored EXCEPT
          !.participants = kept \o pushed,
          !.totalParticipants =
              MergeField(@, base.totalParticipants, doc.totalParticipants),
          !.completedParticipants =
              @ + (doc.completedParticipants - base.completedParticipants),
          !.successRate = MergeField(@, base.successRate, doc.successRate),
          !.version = IF pushed # << >> \/ arraySet THEN @ + 1 ELSE @]

SaveChallenge(stored, base, doc) ==
    LET n == Len(base.participants)
        pushed == Pushed(base.participants, doc.participants)
        arraySet == \E i \in 1..n : doc.participants[i].submissions
                                      # base.participants[i].submissions
        kept == [i \in 1..Len(stored.participants) |->
                   IF i <= n
                   THEN MergeParticipant(stored.participants[i],
                                         base.participants[i],
                                         doc.participants[i])
                   ELSE stored.participants[i]]
    IN [stored EXCEPT
          !.participants = kept \o pushed,
          !.totalParticipants =
              MergeField(@, base.totalParticipants, doc.totalParticipants),
          !.completedParticipants =
              MergeField(@, base.completedParticipants, doc.completedParticipants),
          !.successRate = MergeField(@, base.successRate, doc.successRate),
          !.version = IF pushed # << >> \/ arraySet THEN @ + 1 ELSE @]

SaveUser(stored, base, doc) ==
    [stored EXCEPT
       !.phone = MergeField(@, base.phone, doc.phone),
       !.isEmailVerified = MergeField(@, base.isEmailVerified, doc.isEmailVerified),
       !.isPhoneVerified = MergeField(@, base.isPhoneVerified, doc.isPhoneVerified),
       !.otp = MergeField(@, base.otp, doc.otp),
       !.level = MergeField(@, base.level, doc.level),
       !.experience = MergeField(@, base.experience, doc.experience),
       !.points = MergeField(@, base.points, doc.points),
       !.balance = MergeField(@, base.balance, doc.balance),
       !.transactions = @ \o Pushed(base.transactions, doc.transactions)]

(***************************************************************************)
(* Responses                                                               *)
(***************************************************************************)
Response(op, status, message) ==
    [op |-> op, status |-> status, message |-> message]

NoResponse == Response("none", 0, "")

ChallengeInactive == "Challenge is not active"
AlreadyJoined == "You are already participating in this challenge"
NotEligible == "You are not eligible for this challenge"
Joined == "Successfully joined the challenge"
NotParticipant == "You are not participating in this challenge"
AlreadyCompleted == "Challenge already completed"
Submitted == "Challenge submitted successfully"
ServerError == "Server error"

Submissions == { << >>, << "photo" >> }

CompletedDescription(ch) == "Completed challenge: " \o ch.title

(***************************************************************************)
(* Requests of the model: who sends them and with which inputs             *)
(***************************************************************************)
Clients == {"priya", "u1"}
RegisterRoles == {"farmer"}
Phones == {"9876543210", "9000000001"}
ProfileExperiences == {"intermediate"}
ProfileStates == {"Gujarat"}
TickSteps == {11}
\* the challenges an administrator may retire
Retirable == {"open"}
\* largest number of participant entries of one challenge
MaxParticipants == 2

InvalidOtp == "Invalid or expired OTP"
EmailAlreadyVerified == "Email is already verified"
OtpEmailSent == "OTP sent to your email"
OtpPhoneSent == "OTP sent to your phone"
OtpSendFailed == "Failed to send OTP"
OtpVerifyFailed == "Failed to verify OTP"
EmailVerified == "Email verified successfully"
PhoneVerified == "Phone verified successfully"
PhoneTaken == "Phone number is already verified by another user"
RegistrationError == "Server error during registration"
Registered == "registered"
ProfileUpdated == "Profile updated successfully"
FarmingProfileUpdated == "Farming profile updated successfully"

\* the unique sparse index on phone: no other account holds the number
PhoneFree(u, phone) ==
    phone = NoPhone \/ \A v \in DOMAIN users \ {u} : users[v].phone # phone

(***************************************************************************)
(* POST /api/auth/register                                                 *)
(***************************************************************************)
Register(u, role, phone, otp, sent) ==
    /\ u \in NewUserIds \ DOMAIN users
    /\ IF ~PhoneFree(u, phone)
       THEN /\ resp' = Response("register", 500, RegistrationError)
            /\ UNCHANGED users
       ELSE /\ users' = users @@ (u :> generateOTP(NewUser(role, phone), otp, now))
            /\ resp' = Response("register", 201, Registered)
    /\ UNCHANGED <<challenges, now, reqs>>

(***************************************************************************)
(* POST /api/auth/send-email-otp, verify-email-otp                         *)
(***************************************************************************)
SendEmailOtp(u, otp, sent) ==
    /\ u \in DOMAIN users
    /\ LET user == users[u]
       IN IF user.isEmailVerified
          THEN /\ resp' = Response("send-email-otp", 400, EmailAlreadyVerified)
               /\ UNCHANGED users
          ELSE /\ users' = [users EXCEPT
                              ![u] = SaveUser(user, user, generateOTP(user, otp, now))]
               /\ resp' = IF sent
                          THEN Response("send-email-otp", 200, OtpEmailSent)
                          ELSE Response("send-email-otp", 500, OtpSendFailed)
    /\ UNCHANGED <<challenges, now, reqs>>

\* the verify-email-otp handler telling an expired code from a wrong one
VerifyEmailOtpTellsExpiry(u, otp) ==
    /\ u \in DOMAIN users
    /\ LET user == users[u]
       IN IF ~verifyOTP(user, otp, now)
          THEN /\ resp' = Response("verify-email-otp", 400,
                                   IF user.otp.code = otp THEN "OTP expired"
                                   ELSE InvalidOtp)
               /\ UNCHANGED users
          ELSE /\ Len(user.transactions) < MaxTx
               /\ LET verified == clearOTP([user EXCEPT !.isEmailVerified = TRUE])
                      awarded == addPoints(verified, VerificationBonus,
                                           "Email verification bonus")
                  IN users' = [users EXCEPT ![u] = SaveUser(user, user, awarded)]
               /\ resp' = Response("verify-email-otp", 200, EmailVerified)
    /\ UNCHANGED <<challenges, now, reqs>>

VerifyEmailOtp(u, otp) ==
    /\ u \in DOMAIN users
    /\ LET user == users[u]
       IN IF ~verifyOTP(user, otp, now)
          THEN /\ resp' = Response("verify-email-otp", 400, InvalidOtp)
               /\ UNCHANGED users
          ELSE /\ Len(user.transactions) < MaxTx
               /\ LET verified == clearOTP([user EXCEPT !.isEmailVerified = TRUE])
                      awarded == addPoints(verified, VerificationBonus,
                                           "Email verification bonus")
                  IN users' = [users EXCEPT ![u] = SaveUser(user, user, awarded)]
               /\ resp' = Response("verify-email-otp", 200, EmailVerified)
    /\ UNCHANGED <<challenges, now, reqs>>

(***************************************************************************)
(* POST /api/auth/send-phone-otp, verify-phone-otp                         *)
(***************************************************************************)
SendPhoneOtp(u, phone, otp, sent) ==
    /\ u \in DOMAIN users
    /\ LET user == users[u]
           taken == \E v \in DOMAIN users \ {u} :
                       users[v].phone = phone /\ users[v].isPhoneVerified
       IN IF taken
          THEN /\ resp' = Response("send-phone-otp", 400, PhoneTaken)
               /\ UNCHANGED users
          ELSE IF ~PhoneFree(u, phone)
          THEN /\ resp' = Response("send-phone-otp", 500, OtpSendFailed)
               /\ UNCHANGED users
          ELSE /\ users' = [users EXCEPT
                              ![u] = SaveUser(user, user,
                                        generateOTP([user EXCEPT !.phone = phone],
                                                    otp, now))]
               /\ resp' = IF sent
                          THEN Response("send-phone-otp", 200, OtpPhoneSent)
                          ELSE Response("send-phone-otp", 500, OtpSendFailed)
    /\ UNCHANGED <<challenges, now, reqs>>

\* the verify-phone-otp handler without its clearOTP
VerifyPhoneOtpKeepsCode(u, otp) ==
    /\ u \in DOMAIN users
    /\ LET user == users[u]
       IN IF ~verifyOTP(user, otp, now)
          THEN /\ resp' = Response("verify-phone-otp", 400, InvalidOtp)
               /\ UNCHANGED users
          ELSE /\ Len(user.transactions) < MaxTx
               /\ LET verified == [user EXCEPT !.isPhoneVerified = TRUE]
                      awarded == addPoints(verified, VerificationBonus,
                                           "Phone verification bonus")
                  IN users' = [users EXCEPT ![u] = SaveUser(user, user, awarded)]
               /\ resp' = Response("verify-phone-otp", 200, PhoneVerified)
    /\ UNCHANGED <<challenges, now, reqs>>

VerifyPhoneOtp(u, otp) ==
    /\ u \in DOMAIN users
    /\ LET user == users[u]
       IN IF ~verifyOTP(user, otp, now)
          THEN /\ resp' = Response("verify-phone-otp", 400, InvalidOtp)
               /\ UNCHANGED users
          ELSE /\ Len(user.transactions) < MaxTx
               /\ LET verified == clearOTP([user EXCEPT !.isPhoneVerified = TRUE])
                      awarded == addPoints(verified, VerificationBonus,
                                           "Phone verification bonus")
                  IN users' = [users EXCEPT ![u] = SaveUser(user, user, awarded)]
               /\ resp' = Response("verify-phone-otp", 200, PhoneVerified)
    /\ UNCHANGED <<challenges, now, reqs>>

(***************************************************************************)
(* PUT /api/users/profile, PUT /api/users/farming-profile                  *)
(***************************************************************************)
UpdateProfile(u, phone) ==
    /\ u \in DOMAIN users
    /\ IF ~PhoneFree(u, phone)
       THEN /\ resp' = Response("profile", 500, ServerError)
            /\ UNCHANGED users
       ELSE /\ users' = [users EXCEPT
                           ![u].phone = IF phone # NoPhone THEN phone ELSE @]
            /\ resp' = Response("profile", 200, ProfileUpdated)
    /\ UNCHANGED <<challenges, now, reqs>>

UpdateFarmingProfile(u, experience, state) ==
    /\ u \in DOMAIN users
    /\ users' = [users EXCEPT ![u].farmExp = experience, ![u].state = state]
    /\ resp' = Response("farming-profile", 200, FarmingProfileUpdated)
    /\ UNCHANGED <<challenges, now, reqs>>

(***************************************************************************)
(* POST /api/challenges/:id/join, POST /api/challenges/:id/submit          *)
(***************************************************************************)
\* the join handler without its test for an existing entry
JoinChallengeNoExistingCheck(u, c) ==
    /\ u \in DOMAIN users
    /\ LET ch == challenges[c]
       IN IF ~ch.isActive
          THEN /\ resp' = Response("join", 400, ChallengeInactive)
               /\ UNCHANGED challenges
          ELSE IF ~isEligible(ch, users[u])
          THEN /\ resp' = Response("join", 400, NotEligible)
               /\ UNCHANGED challenges
          ELSE /\ Len(ch.participants) < MaxParticipants
               /\ challenges' = [challenges EXCEPT
                                   ![c] = SaveChallenge(ch, ch, addParticipant(ch, u))]
               /\ resp' = Response("join", 200, Joined)
    /\ UNCHANGED <<users, now, reqs>>

\* the join handler without its test of isActive
JoinChallengeNoActiveCheck(u, c) ==
    /\ u \in DOMAIN users
    /\ LET ch == challenges[c]
       IN IF FindParticipant(ch.participants, u) # 0
          THEN /\ resp' = Response("join", 400, AlreadyJoined)
               /\ UNCHANGED challenges
          ELSE IF ~isEligible(ch, users[u])
          THEN /\ resp' = Response("join", 400, NotEligible)
               /\ UNCHANGED challenges
          ELSE /\ Len(ch.participants) < MaxParticipants
               /\ challenges' = [challenges EXCEPT
                                   ![c] = SaveChallenge(ch, ch, addParticipant(ch, u))]
               /\ resp' = Response("join", 200, Joined)
    /\ UNCHANGED <<users, now, reqs>>

JoinChallenge(u, c) ==
    /\ u \in DOMAIN users
    /\ LET ch == challenges[c]
       IN IF ~ch.isActive
          THEN /\ resp' = Response("join", 400, ChallengeInactive)
               /\ UNCHANGED challenges
          ELSE IF FindParticipant(ch.participants, u) # 0
          THEN /\ resp' = Response("join", 400, AlreadyJoined)
               /\ UNCHANGED challenges
          ELSE IF ~isEligible(ch, users[u])
          THEN /\ resp' = Response("join", 400, NotEligible)
               /\ UNCHANGED challenges
          ELSE /\ Len(ch.participants) < MaxParticipants
               /\ challenges' = [challenges EXCEPT
                                   ![c] = SaveChallenge(ch, ch, addParticipant(ch, u))]
               /\ resp' = Response("join", 200, Joined)
    /\ UNCHANGED <<users, now, reqs>>

\* the submit handler without its test for a completed entry
SubmitChallengeNoCompletedCheck(u, c, submissions) ==
    /\ u \in DOMAIN users
    /\ LET ch == challenges[c]
           i == FindParticipant(ch.participants, u)
       IN IF i = 0
          THEN /\ resp' = Response("submit", 400, NotParticipant)
               /\ UNCHANGED <<users, challenges>>
          ELSE /\ Len(users[u].transactions) < MaxTx
               /\ LET doc == updateParticipantStatus(ch, u, "completed",
                                                     submissions, now)
                      user == users[u]
                  IN /\ challenges' = [challenges EXCEPT
                                         ![c] = SaveChallenge(ch, ch, doc)]
                     /\ users' = [users EXCEPT
                                    ![u] = SaveUser(user, user,
                                              addPoints(user, doc.points,
                                                        CompletedDescription(doc)))]
               /\ resp' = Response("submit", 200, Submitted)
    /\ UNCHANGED <<now, reqs>>

\* the submit handler without its test for a participant entry
SubmitChallengeNoEntryCheck(u, c, submissions) ==
    /\ u \in DOMAIN users
    /\ LET ch == challenges[c]
           i == FindParticipant(ch.participants, u)
       IN IF i # 0 /\ ch.participants[i].status = "completed"
          THEN /\ resp' = Response("submit", 400, AlreadyCompleted)
               /\ UNCHANGED <<users, challenges>>
          ELSE /\ Len(users[u].transactions) < MaxTx
               /\ LET doc == updateParticipantStatus(ch, u, "completed",
                                                     submissions, now)
                      user == users[u]
                  IN /\ challenges' = [challenges EXCEPT
                                         ![c] = SaveChallenge(ch, ch, doc)]
                     /\ users' = [users EXCEPT
                                    ![u] = SaveUser(user, user,
                                              addPoints(user, doc.points,
                                                        CompletedDescription(doc)))]
               /\ resp' = Response("submit", 200, Submitted)
    /\ UNCHANGED <<now, reqs>>

SubmitChallenge(u, c, submissions) ==
    /\ u \in DOMAIN users
    /\ LET ch == challenges[c]
           i == FindParticipant(ch.participants, u)
       IN IF i = 0
          THEN /\ resp' = Response("submit", 400, NotParticipant)
               /\ UNCHANGED <<users, challenges>>
          ELSE IF ch.participants[i].status = "completed"
          THEN /\ resp' = Response("submit", 400, AlreadyCompleted)
               /\ UNCHANGED <<users, challenges>>
          ELSE /\ Len(users[u].transactions) < MaxTx
               /\ LET doc == updateParticipantStatus(ch, u, "completed",
                                                     submissions, now)
                      user == users[u]
                  IN /\ challenges' = [challenges EXCEPT
                                         ![c] = SaveChallenge(ch, ch, doc)]
                     /\ users' = [users EXCEPT
                                    ![u] = SaveUser(user, user,
                                              addPoints(user, doc.points,
                                                        CompletedDescription(doc)))]
               /\ resp' = Response("submit", 200, Submitted)
    /\ UNCHANGED <<now, reqs>>

(***************************************************************************)
(* The environment: an administrator retires a challenge; time passes      *)
(***************************************************************************)
DeactivateChallenge(c) ==
    /\ challenges[c].isActive
    /\ challenges' = [challenges EXCEPT ![c].isActive = FALSE]
    /\ UNCHANGED <<users, now, resp, reqs>>

Tick(d) ==
    /\ now + d <= MaxTime
    /\ now' = now + d
    /\ UNCHANGED <<users, challenges, resp, reqs>>

(***************************************************************************)
(* The service, one request at a time, on the seeded database and one more *)
(* challenge without restrictions                                          *)
(***************************************************************************)
OpenChallenge == NewChallenge("Open Challenge", 1000, {}, NoExperience, {})

ChallengeIds == DOMAIN seedChallenges \cup {"open"}

NoRequests == << >>

Init ==
    /\ users = seedUsers
    /\ challenges = seedChallenges @@ ("open" :> OpenChallenge)
    /\ now = 0
    /\ resp = NoResponse
    /\ reqs = NoRequests

\* every route, for the newly registered account
Next ==
    \/ \E u \in NewUserIds, role \in RegisterRoles, otp \in {"111111"},
          sent \in BOOLEAN : Register(u, role, NoPhone, otp, sent)
    \/ \E u \in NewUserIds, otp \in {"111111"}, sent \in BOOLEAN :
          SendEmailOtp(u, otp, sent)
    \/ \E u \in NewUserIds, otp \in Codes : VerifyEmailOtp(u, otp)
    \/ \E u \in NewUserIds, phone \in Phones, otp \in {"111111"}, sent \in BOOLEAN :
          SendPhoneOtp(u, phone, otp, sent)
    \/ \E u \in NewUserIds, otp \in Codes : VerifyPhoneOtp(u, otp)
    \/ \E u \in NewUserIds, phone \in Phones : UpdateProfile(u, phone)
    \/ \E u \in NewUserIds, e \in ProfileExperiences, st \in ProfileStates :
          UpdateFarmingProfile(u, e, st)
    \/ \E u \in NewUserIds, c \in ChallengeIds : JoinChallenge(u, c)
    \/ \E u \in NewUserIds, c \in ChallengeIds, subs \in { << >> } :
          SubmitChallenge(u, c, subs)
    \/ \E d \in TickSteps : Tick(d)

Spec == Init /\ [][Next]_vars

\* the challenge engine, for a seeded and a newly registered account
NextChallenge ==
    \/ \E u \in NewUserIds, role \in RegisterRoles, otp \in {"111111"},
          sent \in BOOLEAN : Register(u, role, NoPhone, otp, sent)
    \/ \E u \in Clients, c \in ChallengeIds : JoinChallenge(u, c)
    \/ \E u \in Clients, c \in ChallengeIds, subs \in Submissions :
          SubmitChallenge(u, c, subs)
    \/ \E c \in Retirable : DeactivateChallenge(c)

SpecChallenge == Init /\ [][NextChallenge]_vars

(***************************************************************************)
(* The ledger alone: addPoints called directly on the seeded accounts and  *)
(* on a newly registered one                                               *)
(***************************************************************************)
TotalTx(us) ==
    LET RECURSIVE Sum(_)
        Sum(S) == IF S = {} THEN 0
                  ELSE LET u == CHOOSE v \in S : TRUE
                       IN Len(us[u].transactions) + Sum(S \ {u})
    IN Sum(DOMAIN us)

RegisteredUser == generateOTP(NewUser("farmer", NoPhone), "111111", 0)

AddPointsCall(u, points, description) ==
    /\ u \in DOMAIN users
    /\ TotalTx(users) < TotalTx(seedUsers) + MaxCalls
    /\ users' = [users EXCEPT
                   ![u] = SaveUser(users[u], users[u],
                                   addPoints(users[u], points, description))]
    /\ UNCHANGED <<challenges, now, resp, reqs>>

InitLedger ==
    /\ users = seedUsers @@ [u \in NewUserIds |-> RegisteredUser]
    /\ challenges = seedChallenges @@ ("open" :> OpenChallenge)
    /\ now = 0
    /\ resp = NoResponse
    /\ reqs = NoRequests

NextLedger ==
    \E u \in SeedIds \cup NewUserIds, points \in Amounts, d \in Descriptions :
        AddPointsCall(u, points, d)

SpecLedger == InitLedger /\ [][NextLedger]_vars

\* the ledger called with any amount, positive or not
AnyAmounts == {-50, 0, 50}
AnyAmountClients == {"priya", "u1"}

NextLedgerAny ==
    \E u \in AnyAmountClients, points \in AnyAmounts, d \in Descriptions :
        AddPointsCall(u, points, d)

SpecLedgerAny == InitLedger /\ [][NextLedgerAny]_vars

(***************************************************************************)
(* GET /api/leaderboard/user-rank, on accounts whose points change and that *)
(* an administrator may deactivate                                         *)
(***************************************************************************)
\* countDocuments({points: {$gt: userPoints}, isActive: true}) + 1, counting
\* accounts that are not active as well
userRankCountsInactive(us, u) ==
    Cardinality({v \in DOMAIN us : us[v].points > us[u].points}) + 1

\* countDocuments({points: {$gt: userPoints}, isActive: true}) + 1
userRank(us, u) ==
    Cardinality({v \in DOMAIN us :
                    us[v].points > us[u].points /\ us[v].isActive}) + 1

RankResponse(rank, points, level) ==
    [op |-> "user-rank", status |-> 200, message |-> "",
     rank |-> rank, points |-> points, level |-> level]

UserRank(u) ==
    /\ u \in DOMAIN users
    /\ resp' = RankResponse(userRank(users, u), users[u].points, users[u].level)
    /\ UNCHANGED <<users, challenges, now, reqs>>

DeactivateUser(u) ==
    /\ u \in DOMAIN users
    /\ users[u].isActive
    /\ users' = [users EXCEPT ![u].isActive = FALSE]
    /\ UNCHANGED <<challenges, now, resp, reqs>>

RankAwarded == {"priya", "u1"}
RankDeactivatable == {"admin"}

NextRank ==
    \/ \E u \in RankAwarded, points \in Amounts : AddPointsCall(u, points, "Points earned")
    \/ \E u \in SeedIds \cup NewUserIds : UserRank(u)
    \/ \E u \in RankDeactivatable : DeactivateUser(u)

SpecRank == InitLedger /\ [][NextRank]_vars

(***************************************************************************)
(* Concurrent requests: a handler gives way at every await, so the reads   *)
(* and the writes of two requests interleave                               *)
(***************************************************************************)
ReqIds == {1, 2}
ConcChallenges == {"open"}

Idle == [pc |-> "idle"]

\* join: Challenge.findById, then the checks on the loaded copy
JoinLoad(r, u, c) ==
    /\ reqs[r].pc = "idle"
    /\ u \in DOMAIN users
    /\ LET ch == challenges[c]
       IN IF ~ch.isActive
          THEN /\ resp' = Response("join", 400, ChallengeInactive)
               /\ UNCHANGED reqs
          ELSE IF FindParticipant(ch.participants, u) # 0
          THEN /\ resp' = Response("join", 400, AlreadyJoined)
               /\ UNCHANGED reqs
          ELSE /\ Len(ch.participants) < MaxParticipants
               /\ reqs' = [reqs EXCEPT ![r] =
                             [pc |-> "join-user", user |-> u, ch |-> c, base |-> ch]]
               /\ UNCHANGED resp
    /\ UNCHANGED <<users, challenges, now>>

\* join: User.findById, isEligible, addParticipant up to its save()
JoinLoadUser(r) ==
    /\ reqs[r].pc = "join-user"
    /\ LET q == reqs[r]
       IN IF ~isEligible(q.base, users[q.user])
          THEN /\ resp' = Response("join", 400, NotEligible)
               /\ reqs' = [reqs EXCEPT ![r] = Idle]
          ELSE /\ reqs' = [reqs EXCEPT ![r] =
                             [pc |-> "join-save", user |-> q.user, ch |-> q.ch,
                              base |-> q.base,
                              doc |-> addParticipant(q.base, q.user)]]
               /\ UNCHANGED resp
    /\ UNCHANGED <<users, challenges, now>>

\* join: the save() of addParticipant reaches the database
JoinSave(r) ==
    /\ reqs[r].pc = "join-save"
    /\ LET q == reqs[r]
           stored == challenges[q.ch]
       IN IF SaveChallengeOk(stored, q.base, q.doc)
          THEN /\ challenges' = [challenges EXCEPT
                                   ![q.ch] = SaveChallenge(stored, q.base, q.doc)]
               /\ resp' = Response("join", 200, Joined)
          ELSE /\ resp' = Response("join", 500, ServerError)
               /\ UNCHANGED challenges
    /\ reqs' = [reqs EXCEPT ![r] = Idle]
    /\ UNCHANGED <<users, now>>

\* submit: Challenge.findById, the checks, updateParticipantStatus up to its save()
SubmitLoad(r, u, c, submissions) ==
    /\ reqs[r].pc = "idle"
    /\ u \in DOMAIN users
    /\ LET ch == challenges[c]
           i == FindParticipant(ch.participants, u)
       IN IF i = 0
          THEN /\ resp' = Response("submit", 400, NotParticipant)
               /\ UNCHANGED reqs
          ELSE IF ch.participants[i].status = "completed"
          THEN /\ resp' = Response("submit", 400, AlreadyCompleted)
               /\ UNCHANGED reqs
          ELSE /\ reqs' = [reqs EXCEPT ![r] =
                             [pc |-> "submit-save", user |-> u, ch |-> c, base |-> ch,
                              doc |-> updateParticipantStatus(ch, u, "completed",
                                                              submissions, now)]]
               /\ UNCHANGED resp
    /\ UNCHANGED <<users, challenges, now>>

\* submit: the save() of updateParticipantStatus reaches the database
SubmitSave(r) ==
    /\ reqs[r].pc = "submit-save"
    /\ LET q == reqs[r]
           stored == challenges[q.ch]
       IN IF SaveChallengeOk(stored, q.base, q.doc)
          THEN /\ challenges' = [challenges EXCEPT
                                   ![q.ch] = SaveChallenge(stored, q.base, q.doc)]
               /\ reqs' = [reqs EXCEPT ![r] =
                             [pc |-> "submit-user", user |-> q.user, ch |-> q.ch,
                              doc |-> q.doc]]
               /\ UNCHANGED resp
          ELSE /\ resp' = Response("submit", 500, ServerError)
               /\ reqs' = [reqs EXCEPT ![r] = Idle]
               /\ UNCHANGED challenges
    /\ UNCHANGED <<users, now>>

\* submit: User.findById, addPoints up to its save()
SubmitLoadUser(r) ==
    /\ reqs[r].pc = "submit-user"
    /\ LET q == reqs[r]
           user == users[q.user]
       IN /\ Len(user.transactions) < MaxTx
          /\ reqs' = [reqs EXCEPT ![r] =
                        [pc |-> "submit-award", user |-> q.user, ch |-> q.ch,
                         ubase |-> user,
                         udoc |-> addPoints(user, q.doc.points,
                                            CompletedDescription(q.doc))]]
    /\ UNCHANGED <<users, challenges, now, resp>>

\* submit: the save() of addPoints reaches the database
SubmitAward(r) ==
    /\ reqs[r].pc = "submit-award"
    /\ LET q == reqs[r]
       IN users' = [users EXCEPT
                      ![q.user] = SaveUser(users[q.user], q.ubase, q.udoc)]
    /\ resp' = Response("submit", 200, Submitted)
    /\ reqs' = [reqs EXCEPT ![r] = Idle]
    /\ UNCHANGED <<challenges, now>>

InitConc ==
    /\ users = seedUsers @@ [u \in NewUserIds |-> RegisteredUser]
    /\ challenges = seedChallenges @@ ("open" :> OpenChallenge)
    /\ now = 0
    /\ resp = NoResponse
    /\ reqs = [r \in ReqIds |-> Idle]

NextConc ==
    \/ \E r \in ReqIds, u \in Clients, c \in ConcChallenges : JoinLoad(r, u, c)
    \/ \E r \in ReqIds : JoinLoadUser(r)
    \/ \E r \in ReqIds : JoinSave(r)
    \/ \E r \in ReqIds, u \in Clients, c \in ConcChallenges, subs \in Submissions :
          SubmitLoad(r, u, c, subs)
    \/ \E r \in ReqIds : SubmitSave(r)
    \/ \E r \in ReqIds : SubmitLoadUser(r)
    \/ \E r \in ReqIds : SubmitAward(r)

SpecConc == InitConc /\ [][NextConc]_vars

\* one account taking part in two challenges of different worth, its requests
\* interleaved
AwardClients == {"u1"}
AwardChallenges == {"open", "compost"}

NextConcAward ==
    \/ \E r \in ReqIds, u \in AwardClients, c \in AwardChallenges : JoinLoad(r, u, c)
    \/ \E r \in ReqIds : JoinLoadUser(r)
    \/ \E r \in ReqIds : JoinSave(r)
    \/ \E r \in ReqIds, u \in AwardClients, c \in AwardChallenges, subs \in { << >> } :
          SubmitLoad(r, u, c, subs)
    \/ \E r \in ReqIds : SubmitSave(r)
    \/ \E r \in ReqIds : SubmitLoadUser(r)
    \/ \E r \in ReqIds : SubmitAward(r)

SpecConcAward == InitConc /\ [][NextConcAward]_vars

\* submit: User.findById or the save() of addPoints throws; the catch block
\* answers 500 after the completion was written
SubmitAwardFails(r) ==
    /\ reqs[r].pc \in {"submit-user", "submit-award"}
    /\ resp' = Response("submit", 500, ServerError)
    /\ reqs' = [reqs EXCEPT ![r] = Idle]
    /\ UNCHANGED <<users, challenges, now>>

\* the challenge routes of one account while the database may fail the award
NextSubmitFailure ==
    \/ \E r \in ReqIds, u \in AwardClients, c \in AwardChallenges : JoinLoad(r, u, c)
    \/ \E r \in ReqIds : JoinLoadUser(r)
    \/ \E r \in ReqIds : JoinSave(r)
    \/ \E r \in ReqIds, u \in AwardClients, c \in AwardChallenges, subs \in { << >> } :
          SubmitLoad(r, u, c, subs)
    \/ \E r \in ReqIds : SubmitSave(r)
    \/ \E r \in ReqIds : SubmitLoadUser(r)
    \/ \E r \in ReqIds : SubmitAward(r)
    \/ \E r \in ReqIds : SubmitAwardFails(r)

SpecSubmitFailure == InitConc /\ [][NextSubmitFailure]_vars

(***************************************************************************)
(* Eligibility: seeded accounts change their farming profile and join the  *)
(* challenges                                                              *)
(***************************************************************************)
EligClients == {"rajesh", "priya"}
EligExperiences == {"beginner", "intermediate"}
EligStates == {"Punjab", "Gujarat"}

NextEligibility ==
    \/ \E u \in EligClients, e \in EligExperiences, st \in EligStates :
          UpdateFarmingProfile(u, e, st)
    \/ \E u \in EligClients, c \in ChallengeIds : JoinChallenge(u, c)

SpecEligibility == Init /\ [][NextEligibility]_vars

(***************************************************************************)
(* The one-time code alone: generateOTP, verifyOTP and clearOTP called      *)
(* directly on a registered account while time passes; resp holds what the *)
(* call returned                                                           *)
(***************************************************************************)
OtpClients == {"u1"}
OtpTickSteps == {1, 5}

GenerateOtpCall(u, otp) ==
    /\ u \in DOMAIN users
    /\ users' = [users EXCEPT
                   ![u] = SaveUser(users[u], users[u],
                                   generateOTP(users[u], otp, now))]
    /\ resp' = Response("generateOTP", 0, otp)
    /\ UNCHANGED <<challenges, now, reqs>>

VerifyOtpCall(u, otp) ==
    /\ u \in DOMAIN users
    /\ resp' = Response("verifyOTP", 0,
                        IF verifyOTP(users[u], otp, now) THEN "true" ELSE "false")
    /\ UNCHANGED <<users, challenges, now, reqs>>

ClearOtpCall(u) ==
    /\ u \in DOMAIN users
    /\ users' = [users EXCEPT
                   ![u] = SaveUser(users[u], users[u], clearOTP(users[u]))]
    /\ resp' = Response("clearOTP", 0, "undefined")
    /\ UNCHANGED <<challenges, now, reqs>>

NextOtp ==
    \/ \E u \in OtpClients, otp \in Codes : GenerateOtpCall(u, otp)
    \/ \E u \in OtpClients, otp \in Codes : VerifyOtpCall(u, otp)
    \/ \E u \in OtpClients : ClearOtpCall(u)
    \/ \E d \in OtpTickSteps : Tick(d)

SpecOtp == InitLedger /\ [][NextOtp]_vars

(***************************************************************************)
(* The phone number of a new account: sent a code, verified, changed       *)
(***************************************************************************)
FreePhones == {"9000000001", "9000000002"}

NextPhone ==
    \/ \E u \in NewUserIds, role \in RegisterRoles, sent \in BOOLEAN :
          Register(u, role, NoPhone, "111111", sent)
    \/ \E u \in NewUserIds, phone \in FreePhones, sent \in BOOLEAN :
          SendPhoneOtp(u, phone, "111111", sent)
    \/ \E u \in NewUserIds, otp \in Codes : VerifyPhoneOtp(u, otp)
    \/ \E u \in NewUserIds, phone \in FreePhones : UpdateProfile(u, phone)
    \/ \E d \in TickSteps : Tick(d)

SpecPhone == Init /\ [][NextPhone]_vars

(***************************************************************************)
(* The verification routes of a new account, one request at a time         *)
(***************************************************************************)
NextAuth ==
    \/ \E u \in NewUserIds, role \in RegisterRoles, sent \in BOOLEAN :
          Register(u, role, NoPhone, "111111", sent)
    \/ \E u \in NewUserIds, otp \in Codes, sent \in BOOLEAN :
          SendEmailOtp(u, otp, sent)
    \/ \E u \in NewUserIds, otp \in Codes : VerifyEmailOtp(u, otp)
    \/ \E u \in NewUserIds, phone \in FreePhones, otp \in Codes, sent \in BOOLEAN :
          SendPhoneOtp(u, phone, otp, sent)
    \/ \E u \in NewUserIds, otp \in Codes : VerifyPhoneOtp(u, otp)
    \/ \E d \in TickSteps : Tick(d)

SpecAuth == Init /\ [][NextAuth]_vars

(***************************************************************************)
(* Properties                                                              *)
(***************************************************************************)
HasEntry(c, u) == FindParticipant(challenges[c].participants, u) # 0

Entry(c, u) == challenges[c].participants[FindParticipant(challenges[c].participants, u)]

EntryAfter(c, u) ==
    challenges'[c].participants[FindParticipant(challenges'[c].participants, u)]

\* C1: after every addPoints call on an account, registered or seeded, the
\* wallet balance equals the sum of the signed amounts of its transactions.
C1_BalanceIsSumAfterAward ==
    [][\A u \in SeedIds \cup NewUserIds, points \in Amounts, d \in Descriptions :
          AddPointsCall(u, points, d)
          => users'[u].balance = SumSigned(users'[u].transactions)]_vars

\* C2: one addPoints call with a positive amount adds exactly the amount to
\* points, experience and balance and appends exactly one earned transaction
\* with that amount and description, leaving the earlier ones as they were; a
\* fresh account awarded 1000 ends at level 2 with balance 1000 and one
\* transaction.
C2_AwardEffect ==
    [][\A u \in SeedIds \cup NewUserIds, points \in Amounts, d \in Descriptions :
          (/\ users'[u] # users[u]
           /\ points > 0
           /\ AddPointsCall(u, points, d))
          => /\ users'[u].points = users[u].points + points
             /\ users'[u].experience = users[u].experience + points
             /\ users'[u].balance = users[u].balance + points
             /\ users'[u].transactions =
                   Append(users[u].transactions, Tx("earned", points, d))
             /\ (users[u].points = 0 /\ users[u].level = 1 /\ points = 1000
                 => /\ users'[u].level = 2
                    /\ users'[u].balance = 1000
                    /\ users'[u].transactions = << Tx("earned", 1000, d) >>)]_vars

C2_Witness ==
    \E u \in NewUserIds :
        /\ users[u].points = 1000
        /\ users[u].level = 2
        /\ users[u].balance = 1000
        /\ Len(users[u].transactions) = 1
        /\ users[u].transactions[1].type = "earned"
        /\ users[u].transactions[1].amount = 1000

\* C3: after every addPoints call on an account, registered or seeded, the
\* level equals floor(experience / 1000) + 1.
C3_LevelMatchesExperienceAfterAward ==
    [][\A u \in SeedIds \cup NewUserIds, points \in Amounts, d \in Descriptions :
          AddPointsCall(u, points, d)
          => users'[u].level = (users'[u].experience \div LevelSpan) + 1]_vars

\* C4: across any sequence of addPoints calls the level of an account never
\* decreases.
C4_LevelNeverDecreases ==
    [][\A u \in DOMAIN users : users'[u].level >= users[u].level]_vars

\* a call on an account whose level is above the level its experience gives,
\* and a call that raised the level
C4_Witness ==
    /\ Len(users["rajesh"].transactions) = 3
    /\ users["rajesh"].level > (users["rajesh"].experience \div LevelSpan) + 1
    /\ \E u \in NewUserIds : users[u].level = 2

\* C5: in every reachable state the experience of every account equals its
\* points, whatever requests (registration, code verification, challenge
\* submit, profile update) were served.
C5_ExperienceEqualsPoints ==
    \A u \in DOMAIN users : users[u].experience = users[u].points

C5_Witness ==
    \E u \in NewUserIds \cap DOMAIN users :
        /\ users[u].isEmailVerified
        /\ users[u].phone # NoPhone
        /\ users[u].points > 2 * VerificationBonus
        /\ \E c \in ChallengeIds : HasEntry(c, u) /\ Entry(c, u).status = "completed"

\* C6: a submit by an account whose entry is pending succeeds and in one step
\* completes the entry (completedAt now, pointsEarned the challenge's points),
\* counts one more completed participant, and awards the challenge's points to
\* the account with one earned transaction 'Completed challenge: <title>'.
C6_SubmitCompletesAndAwards ==
    [][\A u \in Clients, c \in ChallengeIds, subs \in Submissions :
          (/\ HasEntry(c, u)
           /\ Entry(c, u).status = "pending"
           /\ SubmitChallenge(u, c, subs))
          => /\ resp' = Response("submit", 200, Submitted)
             /\ EntryAfter(c, u).status = "completed"
             /\ EntryAfter(c, u).completedAt = now
             /\ EntryAfter(c, u).pointsEarned = challenges[c].points
             /\ challenges'[c].completedParticipants =
                   challenges[c].completedParticipants + 1
             /\ users'[u].points = users[u].points + challenges[c].points
             /\ users'[u].balance = users[u].balance + challenges[c].points
             /\ users'[u].transactions =
                   Append(users[u].transactions,
                          Tx("earned", challenges[c].points,
                             "Completed challenge: " \o challenges[c].title))]_vars

C6_Witness ==
    /\ resp = Response("submit", 200, Submitted)
    /\ \E u \in Clients, c \in ChallengeIds :
          /\ HasEntry(c, u)
          /\ Entry(c, u).status = "completed"
          /\ Entry(c, u).pointsEarned = challenges[c].points
          /\ challenges[c].completedParticipants = 1
          /\ Len(users[u].transactions) > 0
          /\ users[u].transactions[Len(users[u].transactions)].amount
                = challenges[c].points

\* C7: a submit by an account whose entry is already completed fails with
\* AlreadyCompleted and changes neither the challenge nor the account.
C7_SubmitAfterCompletedRejected ==
    [][\A u \in Clients, c \in ChallengeIds, subs \in Submissions :
          (/\ HasEntry(c, u)
           /\ Entry(c, u).status = "completed"
           /\ SubmitChallenge(u, c, subs))
          => /\ resp' = Response("submit", 400, AlreadyCompleted)
             /\ UNCHANGED <<users, challenges>>]_vars

C7_Witness ==
    /\ resp = Response("submit", 400, AlreadyCompleted)
    /\ \E u \in Clients, c \in ChallengeIds :
          HasEntry(c, u) /\ Entry(c, u).status = "completed"

\* C8 as stated: once an account has an entry in a challenge, every later join
\* of that account on that challenge fails with AlreadyJoined, whatever
\* isActive is.
C8_JoinAgainAlwaysAlreadyJoined ==
    [][\A u \in Clients, c \in ChallengeIds :
          (HasEntry(c, u) /\ JoinChallenge(u, c))
          => resp' = Response("join", 400, AlreadyJoined)]_vars

\* C8 as amended: once an account has an entry in a challenge, every later join
\* of that account on that challenge fails and changes nothing; the failure is
\* AlreadyJoined while the challenge is active and ChallengeInactive once it
\* is not.
C8_JoinAgainRejected ==
    [][\A u \in Clients, c \in ChallengeIds :
          (HasEntry(c, u) /\ JoinChallenge(u, c))
          => /\ resp' = Response("join", 400,
                                 IF challenges[c].isActive
                                 THEN AlreadyJoined ELSE ChallengeInactive)
             /\ UNCHANGED <<users, challenges>>]_vars

C8_Witness ==
    /\ resp = Response("join", 400, AlreadyJoined)
    /\ \E u \in Clients, c \in ChallengeIds :
          HasEntry(c, u) /\ challenges[c].isActive

\* C9: in every reachable state, after any interleaving of join and submit
\* requests, a challenge holds at most one participant entry per account.
C9_OneEntryPerAccount ==
    \A c \in ChallengeIds :
        \A i, j \in 1..Len(challenges[c].participants) :
            i # j => challenges[c].participants[i].userId
                        # challenges[c].participants[j].userId

\* C10: in every reachable state totalParticipants equals the number of
\* participant entries of the challenge.
C10_TotalMatchesEntries ==
    \A c \in ChallengeIds :
        challenges[c].totalParticipants = Len(challenges[c].participants)

\* C11: in every reachable state, under any interleaving of join and submit
\* requests, the pointsEarned of every participant entry of every challenge is
\* nonzero exactly when the status of the entry is completed.
C11_PointsEarnedIffCompleted ==
    \A c \in ChallengeIds :
        \A i \in 1..Len(challenges[c].participants) :
            (challenges[c].participants[i].pointsEarned # 0)
               <=> (challenges[c].participants[i].status = "completed")

\* a challenge holding a completed entry next to a pending one
C11_Witness ==
    \E c \in ChallengeIds :
        \E i, j \in 1..Len(challenges[c].participants) :
            /\ challenges[c].participants[i].status = "completed"
            /\ challenges[c].participants[i].pointsEarned = challenges[c].points
            /\ challenges[c].participants[j].status = "pending"
            /\ challenges[c].participants[j].pointsEarned = 0

\* C12: for an active challenge the account has not joined, join answers
\* NotEligible exactly when the eligibility predicate is false (roles empty or
\* holding the account's role, experience unset or equal to the account's
\* farming experience, states empty or holding the account's state), and joins
\* the account otherwise; an account whose role is missing from a non-empty
\* roles list is rejected whatever its experience and state are.
C12_JoinRejectsExactlyIneligible ==
    [][\A u \in EligClients, c \in ChallengeIds :
          (/\ challenges[c].isActive
           /\ ~HasEntry(c, u)
           /\ JoinChallenge(u, c))
          => LET ch == challenges[c]
                 roleOk == ch.roles = {} \/ users[u].role \in ch.roles
                 expOk == ch.experience = NoExperience
                             \/ ch.experience = users[u].farmExp
                 stateOk == ch.states = {} \/ users[u].state \in ch.states
             IN /\ (resp' = Response("join", 400, NotEligible))
                      <=> ~(roleOk /\ expOk /\ stateOk)
                /\ (roleOk /\ expOk /\ stateOk)
                      => /\ resp' = Response("join", 200, Joined)
                         /\ FindParticipant(challenges'[c].participants, u) # 0
                /\ ~roleOk => /\ resp' = Response("join", 400, NotEligible)
                              /\ UNCHANGED challenges]_vars

\* a join rejected for the role alone: experience and state of the account
\* match a challenge whose roles do not hold the account's role
C12_Witness ==
    /\ resp = Response("join", 400, NotEligible)
    /\ \E u \in EligClients, c \in ChallengeIds :
          /\ challenges[c].isActive
          /\ ~HasEntry(c, u)
          /\ challenges[c].roles # {}
          /\ users[u].role \notin challenges[c].roles
          /\ challenges[c].experience = users[u].farmExp
          /\ users[u].state \in challenges[c].states
    /\ \E u \in EligClients, c \in ChallengeIds :
          HasEntry(c, u) /\ challenges[c].roles # {}

\* C13: verifyOTP returns true exactly when a code is stored, the current time
\* is strictly before expiresAt, and the candidate equals the stored code; in
\* particular a verify at exactly expiresAt fails.
C13_VerifyIffStrictlyBeforeExpiry ==
    [][\A u \in OtpClients, otp \in Codes :
          VerifyOtpCall(u, otp)
          => ((resp'.message = "true")
                <=> /\ users[u].otp.code # NoCode
                    /\ now < users[u].otp.expiresAt
                    /\ otp = users[u].otp.code)]_vars

\* C14: clearOTP leaves the account without a stored code; while the account
\* has none, verifyOTP fails for every candidate at every time; and only
\* generateOTP gives the account a code again.
C14_VerifyFailsAfterClear ==
    [][\A u \in OtpClients :
          /\ ClearOtpCall(u) => users'[u].otp = NoOTP
          /\ \A otp \in Codes :
                (users[u].otp = NoOTP /\ VerifyOtpCall(u, otp))
                => resp'.message = "false"
          /\ (users[u].otp = NoOTP /\ users'[u].otp # NoOTP)
                => \E otp \in Codes : GenerateOtpCall(u, otp)]_vars

\* a verify answered false on an account whose code was cleared before it
\* expired
C14_Witness ==
    /\ resp = Response("verifyOTP", 0, "false")
    /\ now < OtpLifetime
    /\ \E u \in OtpClients : users[u].otp = NoOTP

\* C15: generateOTP on an account that holds an unexpired code replaces it: the
\* account then holds exactly the new code, expiring 10 minutes after this
\* generation, and a previously stored code that differs from the new one no
\* longer verifies.
C15_GenerateReplaces ==
    [][\A u \in OtpClients, otp \in Codes :
          (/\ users[u].otp.code # NoCode
           /\ now < users[u].otp.expiresAt
           /\ GenerateOtpCall(u, otp))
          => /\ users'[u].otp = [code |-> otp, expiresAt |-> now + OtpLifetime]
             /\ users[u].otp.code # otp
                   => ~verifyOTP(users'[u], users[u].otp.code, now)
             /\ verifyOTP(users'[u], otp, now)]_vars

\* the registration code was replaced by another one within its 10 minutes and
\* a verify was then answered false
C15_Witness ==
    /\ resp = Response("verifyOTP", 0, "false")
    /\ 0 < now /\ now < OtpLifetime
    /\ \E u \in OtpClients :
          /\ users[u].otp.code = "222222"
          /\ users[u].otp.expiresAt = now + OtpLifetime - 1

\* C16: verify-email-otp and verify-phone-otp answer a wrong code, an expired
\* code and an absent code with the same response, status 400 and 'Invalid or
\* expired OTP', and change nothing: the response does not depend on which of
\* the three causes applies.
C16_VerifyFailuresIndistinguishable ==
    [][\A u \in NewUserIds, otp \in Codes :
          LET absent == users[u].otp.code = NoCode
              expired == users[u].otp.code = otp /\ users[u].otp.expiresAt < now
              wrong == users[u].otp.code # NoCode /\ users[u].otp.code # otp
          IN /\ (u \in DOMAIN users /\ (absent \/ expired \/ wrong)
                   /\ VerifyEmailOtp(u, otp))
                => /\ resp' = Response("verify-email-otp", 400, InvalidOtp)
                   /\ UNCHANGED users
             /\ (u \in DOMAIN users /\ (absent \/ expired \/ wrong)
                   /\ VerifyPhoneOtp(u, otp))
                => /\ resp' = Response("verify-phone-otp", 400, InvalidOtp)
                   /\ UNCHANGED users]_vars

\* verify-email-otp refused on an account whose code was consumed by a phone
\* verification (absent code)
C16_Witness ==
    /\ resp = Response("verify-email-otp", 400, InvalidOtp)
    /\ \E u \in NewUserIds \cap DOMAIN users :
          /\ users[u].otp = NoOTP
          /\ users[u].isPhoneVerified
          /\ ~users[u].isEmailVerified

\* C17: when the sending of the code fails, register, send-email-otp and
\* send-phone-otp still report success as soon as the code was generated and
\* persisted: 201 for register, 200 'OTP sent to your email' and 200 'OTP sent
\* to your phone' for the two send operations.
C17_SendFailureNotSurfaced ==
    [][\A u \in NewUserIds, otp \in Codes :
          LET persisted == /\ u \in DOMAIN users'
                           /\ users'[u].otp =
                                 [code |-> otp, expiresAt |-> now + OtpLifetime]
          IN /\ \A role \in RegisterRoles :
                   (Register(u, role, NoPhone, otp, FALSE) /\ persisted)
                   => resp' = Response("register", 201, Registered)
             /\ (SendEmailOtp(u, otp, FALSE) /\ ~users[u].isEmailVerified
                   /\ persisted)
                => resp' = Response("send-email-otp", 200, OtpEmailSent)
             /\ \A phone \in Phones :
                   (SendPhoneOtp(u, phone, otp, FALSE) /\ persisted
                      /\ users'[u].phone = phone)
                   => resp' = Response("send-phone-otp", 200, OtpPhoneSent)]_vars

\* C18: an addPoints call with an amount <= 0 is rejected: it leaves points,
\* experience, level, wallet balance and transactions of the account unchanged.
C18_NonPositiveAmountRejected ==
    [][\A u \in AnyAmountClients, points \in AnyAmounts, d \in Descriptions :
          (points <= 0 /\ AddPointsCall(u, points, d))
          => /\ users'[u].points = users[u].points
             /\ users'[u].experience = users[u].experience
             /\ users'[u].level = users[u].level
             /\ users'[u].balance = users[u].balance
             /\ users'[u].transactions = users[u].transactions]_vars

\* C19: in every reachable state the points and the experience of every
\* account are >= 0, and no step of any request, under any interleaving of
\* requests, makes the stored points or experience of an account smaller.
C19_PointsNeverDecrease ==
    [][\A u \in DOMAIN users :
          /\ users[u].points >= 0 /\ users[u].experience >= 0
          /\ users'[u].points >= users[u].points
          /\ users'[u].experience >= users[u].experience]_vars

\* C20: the rank returned by user-rank is 1 plus the number of active accounts
\* with strictly more points than the account; an account with the same points
\* would be given the same rank; and the rank is 1 exactly when no active
\* account has more points.
C20_RankCountsActiveAbove ==
    [][\A u \in SeedIds \cup NewUserIds :
          UserRank(u)
          => LET above == {v \in DOMAIN users :
                             users[v].isActive /\ users[v].points > users[u].points}
             IN /\ resp'.rank = 1 + Cardinality(above)
                /\ resp'.points = users[u].points
                /\ (resp'.rank = 1) <=> (above = {})
                /\ \A v \in DOMAIN users :
                      users[v].points = users[u].points
                      => userRank(users, v) = resp'.rank]_vars

\* two accounts with 2100 points each are ranked third once the account with
\* the most points is deactivated
C20_Witness ==
    /\ resp.op = "user-rank"
    /\ resp.rank = 3
    /\ resp.points = 2100
    /\ users["priya"].points = 2100
    /\ \E u \in NewUserIds : users[u].points = 2100
    /\ ~users["admin"].isActive

\* C21: a join on a challenge whose isActive is false fails with
\* ChallengeInactive and leaves the challenge (participants, totalParticipants)
\* and the account unchanged.
C21_JoinInactiveRejected ==
    [][\A u \in Clients, c \in ChallengeIds :
          (/\ ~challenges[c].isActive
           /\ u \in DOMAIN users
           /\ JoinChallenge(u, c))
          => /\ resp' = Response("join", 400, ChallengeInactive)
             /\ challenges'[c].participants = challenges[c].participants
             /\ challenges'[c].totalParticipants = challenges[c].totalParticipants
             /\ UNCHANGED <<users, challenges>>]_vars

\* a retired challenge refused an account that holds no entry in it
C21_Witness ==
    /\ resp = Response("join", 400, ChallengeInactive)
    /\ \E c \in ChallengeIds, u \in Clients \cap DOMAIN users :
          ~challenges[c].isActive /\ ~HasEntry(c, u)

\* C22: a submit by an account without an entry in the challenge fails with
\* NotParticipant and changes neither the challenge nor the account; an entry
\* appears only through a successful join of that account on that challenge;
\* and an account holds a 'Completed challenge' award of a challenge only
\* while it holds a completed entry in it.
C22_SubmitWithoutEntryRejected ==
    [][\A u \in Clients, c \in ChallengeIds :
          /\ \A subs \in Submissions :
                (~HasEntry(c, u) /\ u \in DOMAIN users /\ SubmitChallenge(u, c, subs))
                => /\ resp' = Response("submit", 400, NotParticipant)
                   /\ UNCHANGED <<users, challenges>>
          /\ (~HasEntry(c, u)
                /\ FindParticipant(challenges'[c].participants, u) # 0)
                => /\ JoinChallenge(u, c)
                   /\ resp' = Response("join", 200, Joined)
          /\ (/\ u \in DOMAIN users'
              /\ \E k \in 1..Len(users'[u].transactions) :
                    users'[u].transactions[k].description
                       = CompletedDescription(challenges'[c]))
                => /\ FindParticipant(challenges'[c].participants, u) # 0
                   /\ EntryAfter(c, u).status = "completed"]_vars

\* a submit refused for want of an entry, next to an account that joined,
\* completed and was awarded
C22_Witness ==
    /\ resp = Response("submit", 400, NotParticipant)
    /\ \E u \in Clients \cap DOMAIN users :
          \A c \in ChallengeIds : ~HasEntry(c, u)
    /\ \E u \in Clients \cap DOMAIN users, c \in ChallengeIds :
          /\ HasEntry(c, u)
          /\ Entry(c, u).status = "completed"
          /\ \E k \in 1..Len(users[u].transactions) :
                users[u].transactions[k].description
                   = CompletedDescription(challenges[c])

CompletedEntries(ch) ==
    {i \in 1..Len(ch.participants) : ch.participants[i].status = "completed"}

AwardsOf(c, u) ==
    {k \in 1..Len(users[u].transactions) :
        users[u].transactions[k].description = CompletedDescription(challenges[c])}

EntriesOf(c, u) ==
    {i \in 1..Len(challenges[c].participants) :
        challenges[c].participants[i].userId = u}

\* C23 as stated: when two submit requests of one account on one challenge
\* both succeeded, the account having one entry and two awards of the
\* challenge, completedParticipants was counted twice for that entry.
C23_BothSubmitsCountTwice ==
    \A c \in ConcChallenges, u \in Clients :
        (Cardinality(AwardsOf(c, u)) = 2 /\ Cardinality(EntriesOf(c, u)) = 1)
        => challenges[c].completedParticipants
              >= Cardinality(CompletedEntries(challenges[c])) + 1

\* C23 as amended: two concurrent submits of one account on one challenge can
\* both succeed and award the points twice, but completedParticipants is never
\* counted twice: it never exceeds the number of completed entries.
C23_CompletionNotCountedTwice ==
    \A c \in ConcChallenges :
        challenges[c].completedParticipants
           <= Cardinality(CompletedEntries(challenges[c]))

\* both submits succeeded: one completed entry, counted once, and two awards
\* of the challenge's points on the account
C23_Witness ==
    /\ resp = Response("submit", 200, Submitted)
    /\ \A r \in ReqIds : reqs[r] = Idle
    /\ \E c \in ConcChallenges, u \in Clients :
          /\ Cardinality(EntriesOf(c, u)) = 1
          /\ Entry(c, u).status = "completed"
          /\ challenges[c].completedParticipants = 1
          /\ Cardinality(AwardsOf(c, u)) = 2
          /\ users[u].points = 2 * challenges[c].points

\* C24: under any interleaving of join and submit requests every participant
\* entry has status pending or completed; an entry is created pending, its
\* status changes only from pending to completed, and a completed entry stays
\* completed.
C24_StatusPendingThenCompleted ==
    [][\A c \in ChallengeIds :
          LET old == challenges[c].participants
              new == challenges'[c].participants
          IN /\ Len(new) >= Len(old)
             /\ \A i \in 1..Len(new) :
                   /\ new[i].status \in {"pending", "completed"}
                   /\ i > Len(old) => new[i].status = "pending"
                   /\ i <= Len(old) =>
                         /\ new[i].userId = old[i].userId
                         /\ new[i].status # old[i].status
                               => /\ old[i].status = "pending"
                                  /\ new[i].status = "completed"
                         /\ old[i].status = "completed"
                               => new[i].status = "completed"]_vars

\* a completed entry next to a pending one, after a submit on the completed
\* entry was refused
C24_Witness ==
    /\ resp = Response("submit", 400, AlreadyCompleted)
    /\ \E c \in ChallengeIds :
          \E i, j \in 1..Len(challenges[c].participants) :
              /\ challenges[c].participants[i].status = "completed"
              /\ challenges[c].participants[j].status = "pending"

BonusCount(u, description) ==
    Cardinality({k \in 1..Len(users[u].transactions) :
                    /\ users[u].transactions[k].description = description
                    /\ users[u].transactions[k].amount = VerificationBonus})

\* C25: whatever sequence of send-email-otp, send-phone-otp, verify-email-otp
\* and verify-phone-otp requests an account sends, it is awarded the 'Email
\* verification bonus' at most once and the 'Phone verification bonus' at most
\* once.
C25_BonusAtMostOnce ==
    \A u \in DOMAIN users :
        /\ BonusCount(u, "Email verification bonus") <= 1
        /\ BonusCount(u, "Phone verification bonus") <= 1

\* C26: a code issued for the email channel never makes verify-phone-otp
\* succeed: when the latest request served was the registration, whose code
\* was sent to the account's email, a verify-phone-otp is refused.
C26_EmailCodeNeverVerifiesPhone ==
    [][\A u \in NewUserIds, otp \in Codes :
          (/\ resp = Response("register", 201, Registered)
           /\ u \in DOMAIN users
           /\ VerifyPhoneOtp(u, otp))
          => /\ resp' = Response("verify-phone-otp", 400, InvalidOtp)
             /\ ~users'[u].isPhoneVerified]_vars

\* C27: a change of the stored phone number of an account whose number is
\* verified, by send-phone-otp with another number or by a profile update,
\* does not leave isPhoneVerified true: the new number has not been verified.
C27_PhoneChangeResetsVerified ==
    [][\A u \in NewUserIds :
          (/\ u \in DOMAIN users
           /\ users[u].isPhoneVerified
           /\ users[u].phone # NoPhone
           /\ users'[u].phone # users[u].phone)
          => ~users'[u].isPhoneVerified]_vars

\* C28: whenever no request is in flight, also after the award step of a
\* submit failed, a completed entry with pointsEarned P comes with an earned
\* transaction of amount P for that challenge in the wallet of the account.
C28_CompletionImpliesAward ==
    (\A r \in ReqIds : reqs[r] = Idle)
    => \A c \in AwardChallenges, u \in AwardClients :
          (HasEntry(c, u) /\ Entry(c, u).status = "completed")
          => \E k \in 1..Len(users[u].transactions) :
                /\ users[u].transactions[k].type = "earned"
                /\ users[u].transactions[k].amount = Entry(c, u).pointsEarned
                /\ users[u].transactions[k].description
                      = CompletedDescription(challenges[c])

\* C29: once two awards to one account that ran concurrently have both
\* completed, none is lost: the points of a new account equal the sum of its
\* logged transactions, and so does its wallet balance.
C29_NoAwardLost ==
    (\A r \in ReqIds : reqs[r] = Idle)
    => \A u \in AwardClients :
          /\ users[u].points = SumSigned(users[u].transactions)
          /\ users[u].balance = SumSigned(users[u].transactions)

\* C30: a successful verify-email-otp or verify-phone-otp leaves the account
\* without a stored code; while the account has none, both verify operations
\* refuse every code; and a code is stored again only by send-email-otp or
\* send-phone-otp.
C30_CodeSingleUse ==
    [][\A u \in NewUserIds :
          u \in DOMAIN users
          => /\ \A otp \in Codes :
                   /\ (VerifyEmailOtp(u, otp)
                         /\ resp' = Response("verify-email-otp", 200, EmailVerified))
                       => users'[u].otp = NoOTP
                   /\ (VerifyPhoneOtp(u, otp)
                         /\ resp' = Response("verify-phone-otp", 200, PhoneVerified))
                       => users'[u].otp = NoOTP
                   /\ (users[u].otp = NoOTP /\ VerifyEmailOtp(u, otp))
                       => /\ resp' = Response("verify-email-otp", 400, InvalidOtp)
                          /\ UNCHANGED users
                   /\ (users[u].otp = NoOTP /\ VerifyPhoneOtp(u, otp))
                       => /\ resp' = Response("verify-phone-otp", 400, InvalidOtp)
                          /\ UNCHANGED users
             /\ (users[u].otp = NoOTP /\ users'[u].otp # NoOTP)
                   => resp'.op \in {"send-email-otp", "send-phone-otp"}]_vars

\* the code that verified the phone was presented again, to the email
\* verification, and refused
C30_Witness ==
    /\ resp = Response("verify-email-otp", 400, InvalidOtp)
    /\ now = 0
    /\ \E u \in NewUserIds \cap DOMAIN users :
          /\ users[u].otp = NoOTP
          /\ users[u].isPhoneVerified
          /\ BonusCount(u, "Phone verification bonus") = 1

====
